---- MODULE Spec2Model ----
(***************************************************************************)
(* AudioLoudnessMeterV3 (src/src/app/services/AudioLoudnessMeterV3.ts):    *)
(* the sampler interval, its threshold / silence state machine, the chunk  *)
(* recorder and the blob assembly, as a state machine over wall-clock      *)
(* time.  One model time unit stands for one reading of Date.now(); every  *)
(* callback (interval tick, dataavailable, start, stop) runs to completion *)
(* at one instant, as callbacks of the JavaScript event loop do.           *)
(***************************************************************************)
EXTENDS Integers, Sequences, FiniteSets, TLC

(* ------------------------------ bounds --------------------------------- *)
\* Last instant of Date.now() the model explores.
MaxTime == 5
\* Chunks the recorders deliver over the whole run.
MaxChunks == 3
\* Calls of start() over the whole run.
MaxStarts == 2
\* Last instant explored once the instance has left its lifecycle: a sampler
\* has leaked (two start() calls overlapped and stop() can no longer clear
\* the first interval), or a session runs although stop() has returned.
MaxOverlapTime == 3
\* Configuration the constructor accepts (lines 64-83), in model time units.
InitialRecordingDuration == 2
AmountOfSilenceMsBeforeOnSilenceIsTriggered == 1
MsBeforeThreshold == 1

\* Date.now() when the instance is constructed: the clock reads milliseconds
\* since 1970, so a window that starts at audioShouldStartAtThisDateTime = 0
\* (its value before the first event and after stop()) ends before the time
\* of every chunk, and no start point of an event is 0.
Epoch == InitialRecordingDuration + MsBeforeThreshold + 1

(* ------------------------- program constants --------------------------- *)
LoudnessThreshold == 6
NumberOfChunksToCaptureAsHeaders == 2
CurrentMimeType == "audio/webm;codecs=opus"

\* null of a `number | null` closure variable.
Null == 0 - 1

\* Loudness values the analyser can yield around the threshold.
Levels == {LoudnessThreshold - 1, LoudnessThreshold}

\* The callback sets a caller passes to start(): all three, or none (start()).
AllCallbacks == [preview |-> TRUE, periodic |-> TRUE, silence |-> TRUE]
NoCallbacks == [preview |-> FALSE, periodic |-> FALSE, silence |-> FALSE]
CallbackChoices == {AllCallbacks, NoCallbacks}

VARIABLES
  now,                 \* Date.now()
  mimeTypeSupported,   \* whether new MediaRecorder(.., {mimeType}) succeeds here
  isAnalyzing,
  isRecording,
  audioShouldStartAtThisDateTime,
  audioChunks,         \* ExtendedBlob[]: records [id, dateTimeBlobEnded]
  headerChunks,
  callbacks,           \* which of the three callbacks are non-null
  audioContext,        \* TRUE when non-null
  mediaStream,         \* TRUE when non-null
  analyser,            \* TRUE when non-null
  mediaRecorder,       \* index into recorders, 0 when null
  periodicVolumeCalcIntervalId,  \* index into samplers, Null (-1) when none
  samplers,            \* one closure of startVolumeChecking per setInterval
  recorders,           \* state of every MediaRecorder ever created
  pendingStarts,       \* start() calls suspended at await getUserMedia
  startCalls,          \* number of start() calls made
  nextChunkId,         \* chunks delivered so far
  out,                 \* what the last callback did (callbacks invoked, blobs)
  hist,                \* per sampler: observations of the event in flight
  everLoud,            \* some tick so far read a loudness >= the threshold
  stopReturned,        \* stop() has returned and start() was not called since
  sessionHeaders,      \* first non-empty chunks a running recorder delivered
                       \* while the session records, up to the header count
  v1,                  \* the AudioLoudnessMeter (V1) instance, its interval
                       \* closure, its timers and its recorders
  v1Out,               \* what the V1 callbacks did during the event in flight
  player,              \* the QueuedWebAudioPlayer instance and its sources
  service,             \* the VoiceInteractionAudioService instance
  playerOut            \* what the loudspeaker played so far

vars == <<now, mimeTypeSupported, isAnalyzing, isRecording,
          audioShouldStartAtThisDateTime, audioChunks, headerChunks, callbacks,
          audioContext, mediaStream, analyser, mediaRecorder,
          periodicVolumeCalcIntervalId, samplers, recorders, pendingStarts,
          startCalls, nextChunkId, out, hist, everLoud,
          stopReturned, sessionHeaders, v1, v1Out, player, service, playerOut>>

\* The objects other than the AudioLoudnessMeterV3 instance.
otherVars == <<v1, v1Out, player, service, playerOut>>

(* --------------------------- pure helpers ------------------------------ *)
\* Off by one: the sample just below the threshold counts as loud.
IsLoudnessOverThreshold_Low(normalizedLoudness) ==
  normalizedLoudness >= LoudnessThreshold - 1

\* line 136
IsLoudnessOverThreshold(normalizedLoudness) ==
  normalizedLoudness >= LoudnessThreshold

\* lines 229-233: the filter predicate of the preview clip
InPreviewWindow(chunk, start) ==
  /\ chunk.dateTimeBlobEnded >= start
  /\ chunk.dateTimeBlobEnded <= start + InitialRecordingDuration

\* lines 252-255: the filter predicate of the complete clip
InCompleteWindow(chunk, start) ==
  chunk.dateTimeBlobEnded >= start

\* Array.prototype.filter keeps the order of the array.
PreviewChunks(chunks, start) ==
  SelectSeq(chunks, LAMBDA c : InPreviewWindow(c, start))

CompleteChunks(chunks, start) ==
  SelectSeq(chunks, LAMBDA c : InCompleteWindow(c, start))

\* The blob with the selected chunks put before the headers.
NewBlob_PayloadFirst(headers, relevantChunks) ==
  [parts |-> relevantChunks \o headers, type |-> CurrentMimeType]

\* lines 237 and 259: new Blob([...headerChunks, ...relevantChunks], {type})
NewBlob(headers, relevantChunks) ==
  [parts |-> headers \o relevantChunks, type |-> CurrentMimeType]

\* triggerOnAudioAboveThresholdDetected without the test of line 235: a blob
\* of the headers alone is built for an empty selection.
TriggerOnAudioAboveThresholdDetected_NoEmptyTest(recording, chunks, headers, start) ==
  IF ~recording \/ Len(chunks) = 0 THEN << >>
  ELSE << NewBlob(headers, PreviewChunks(chunks, start)) >>

\* lines 223-244: the blob triggerOnAudioAboveThresholdDetected builds, << >>
\* when it returns without building one.
TriggerOnAudioAboveThresholdDetected(recording, chunks, headers, start) ==
  IF ~recording \/ Len(chunks) = 0 THEN << >>
  ELSE IF Len(PreviewChunks(chunks, start)) > 0
       THEN << NewBlob(headers, PreviewChunks(chunks, start)) >>
       ELSE << >>

\* lines 246-264
TriggerOnSilenceDetected(recording, chunks, headers, start) ==
  IF ~recording \/ Len(chunks) = 0 THEN << >>
  ELSE IF Len(CompleteChunks(chunks, start)) > 0
       THEN << NewBlob(headers, CompleteChunks(chunks, start)) >>
       ELSE << >>

(* ----------------------- the sampler's closure ------------------------- *)
\* lines 117-119: the closure variables of one startVolumeChecking call
NewSampler ==
  [live |-> TRUE,
   loudnessDetectedStartTime |-> Null,
   silenceDetectedStartTime |-> Null,
   processingAudioThresholdExceededEvent |-> FALSE]

\* loudnessDetection that sets audioShouldStartAtThisDateTime only while it
\* still holds its initial value: a later event keeps the first start point.
LoudnessDetection_StaleStart(s, isLoud, start, t) ==
  IF s.processingAudioThresholdExceededEvent
  THEN [s |-> s, start |-> start, trigger |-> FALSE, crossed |-> FALSE]
  ELSE IF s.loudnessDetectedStartTime # Null
  THEN IF t - s.loudnessDetectedStartTime >= InitialRecordingDuration
       THEN [s |-> [s EXCEPT !.loudnessDetectedStartTime = Null,
                             !.processingAudioThresholdExceededEvent = TRUE],
             start |-> start, trigger |-> TRUE, crossed |-> FALSE]
       ELSE [s |-> s, start |-> start, trigger |-> FALSE, crossed |-> FALSE]
  ELSE IF isLoud
  THEN [s |-> [s EXCEPT !.loudnessDetectedStartTime = t],
        start |-> IF start = 0 THEN t - MsBeforeThreshold ELSE start,
        trigger |-> FALSE, crossed |-> TRUE]
  ELSE [s |-> s, start |-> start, trigger |-> FALSE, crossed |-> FALSE]

\* loudnessDetection without its first line: a crossing is recognized again
\* while the event is still awaiting silence.
LoudnessDetection_NoGuard(s, isLoud, start, t) ==
  IF s.loudnessDetectedStartTime # Null
  THEN IF t - s.loudnessDetectedStartTime >= InitialRecordingDuration
       THEN [s |-> [s EXCEPT !.loudnessDetectedStartTime = Null,
                             !.processingAudioThresholdExceededEvent = TRUE],
             start |-> start, trigger |-> TRUE, crossed |-> FALSE]
       ELSE [s |-> s, start |-> start, trigger |-> FALSE, crossed |-> FALSE]
  ELSE IF isLoud
  THEN [s |-> [s EXCEPT !.loudnessDetectedStartTime = t],
        start |-> t - MsBeforeThreshold, trigger |-> FALSE, crossed |-> TRUE]
  ELSE [s |-> s, start |-> start, trigger |-> FALSE, crossed |-> FALSE]

\* loudnessDetection that gives the pending event up when the sample has
\* dropped below the threshold before the preview is due.
LoudnessDetection_DropAborts(s, isLoud, start, t) ==
  IF s.processingAudioThresholdExceededEvent
  THEN [s |-> s, start |-> start, trigger |-> FALSE, crossed |-> FALSE]
  ELSE IF s.loudnessDetectedStartTime # Null
  THEN IF t - s.loudnessDetectedStartTime >= InitialRecordingDuration
       THEN [s |-> [s EXCEPT !.loudnessDetectedStartTime = Null,
                             !.processingAudioThresholdExceededEvent = TRUE],
             start |-> start, trigger |-> TRUE, crossed |-> FALSE]
       ELSE IF isLoud
       THEN [s |-> s, start |-> start, trigger |-> FALSE, crossed |-> FALSE]
       ELSE [s |-> [s EXCEPT !.loudnessDetectedStartTime = Null],
             start |-> start, trigger |-> FALSE, crossed |-> FALSE]
  ELSE IF isLoud
  THEN [s |-> [s EXCEPT !.loudnessDetectedStartTime = t],
        start |-> t - MsBeforeThreshold, trigger |-> FALSE, crossed |-> TRUE]
  ELSE [s |-> s, start |-> start, trigger |-> FALSE, crossed |-> FALSE]

\* lines 143-157 with 121-128.  Result: the closure afterwards, the new
\* audioShouldStartAtThisDateTime, and whether the preview trigger was called.
LoudnessDetection(s, isLoud, start, t) ==
  IF s.processingAudioThresholdExceededEvent
  THEN [s |-> s, start |-> start, trigger |-> FALSE, crossed |-> FALSE]
  ELSE IF s.loudnessDetectedStartTime # Null
  THEN IF t - s.loudnessDetectedStartTime >= InitialRecordingDuration
       THEN [s |-> [s EXCEPT !.loudnessDetectedStartTime = Null,
                             !.processingAudioThresholdExceededEvent = TRUE],
             start |-> start, trigger |-> TRUE, crossed |-> FALSE]
       ELSE [s |-> s, start |-> start, trigger |-> FALSE, crossed |-> FALSE]
  ELSE IF isLoud
  THEN [s |-> [s EXCEPT !.loudnessDetectedStartTime = t],
        start |-> t - MsBeforeThreshold, trigger |-> FALSE, crossed |-> TRUE]
  ELSE [s |-> s, start |-> start, trigger |-> FALSE, crossed |-> FALSE]

\* The silence timer without its reset: a sample >= threshold leaves a
\* running timer running.
SilenceTimer_NoReset(s, isLoud, t) ==
  IF s.silenceDetectedStartTime # Null THEN s.silenceDetectedStartTime
  ELSE IF isLoud THEN Null ELSE t

\* The silence timer started anew by every sample below the threshold.
SilenceTimer_Restarts(s, isLoud, t) ==
  IF isLoud THEN Null ELSE t

\* lines 162-175: silenceDetectedStartTime after the reset and the start.
SilenceTimer(s, isLoud, t) ==
  IF isLoud THEN Null
  ELSE IF s.silenceDetectedStartTime = Null THEN t
  ELSE s.silenceDetectedStartTime

\* The silence duration compared with > instead of >=.
SilenceDetection_Late(s, isLoud, t) ==
  IF ~s.processingAudioThresholdExceededEvent
  THEN [s |-> s, trigger |-> FALSE]
  ELSE LET timer == SilenceTimer(s, isLoud, t) IN
       IF timer # Null /\ t - timer > AmountOfSilenceMsBeforeOnSilenceIsTriggered
       THEN [s |-> [s EXCEPT !.silenceDetectedStartTime = Null,
                             !.processingAudioThresholdExceededEvent = FALSE],
             trigger |-> TRUE]
       ELSE [s |-> [s EXCEPT !.silenceDetectedStartTime = timer],
             trigger |-> FALSE]

\* silenceDetection that leaves the silence timer set when it completes the
\* event.
SilenceDetection_KeepsTimer(s, isLoud, t) ==
  IF ~s.processingAudioThresholdExceededEvent
  THEN [s |-> s, trigger |-> FALSE]
  ELSE LET timer == SilenceTimer(s, isLoud, t) IN
       IF timer # Null /\ t - timer >= AmountOfSilenceMsBeforeOnSilenceIsTriggered
       THEN [s |-> [s EXCEPT !.silenceDetectedStartTime = timer,
                             !.processingAudioThresholdExceededEvent = FALSE],
             trigger |-> TRUE]
       ELSE [s |-> [s EXCEPT !.silenceDetectedStartTime = timer],
             trigger |-> FALSE]

\* lines 159-187.  Result: the closure afterwards and whether the silence
\* trigger was called.
SilenceDetection(s, isLoud, t) ==
  IF ~s.processingAudioThresholdExceededEvent
  THEN [s |-> s, trigger |-> FALSE]
  ELSE LET timer == SilenceTimer(s, isLoud, t) IN
       IF timer # Null /\ t - timer >= AmountOfSilenceMsBeforeOnSilenceIsTriggered
       THEN [s |-> [s EXCEPT !.silenceDetectedStartTime = Null,
                             !.processingAudioThresholdExceededEvent = FALSE],
             trigger |-> TRUE]
       ELSE [s |-> [s EXCEPT !.silenceDetectedStartTime = timer],
             trigger |-> FALSE]

(* ------------------------------ outputs -------------------------------- *)
\* Observations of the event a sampler has in flight, kept for the
\* properties only.  They follow the samples, not the closure: the state of
\* section 4.3's machine, the tick time of the crossing, the preview
\* callbacks invoked since it, the start of the run of below-threshold
\* samples seen while awaiting silence, and whether an event has completed.
NewHist ==
  [phase |-> "Idle", crossT |-> Null, previews |-> 0, quietSince |-> Null,
   done |-> FALSE]

\* A sample counts as silence when it is strictly below the threshold.
Below(normalizedLoudness) == normalizedLoudness < LoudnessThreshold

\* The machine of section 4.3 before the silence timer is looked at.
ObservedEntry(h, below, t) ==
  IF h.phase = "Idle" /\ ~below
  THEN [h EXCEPT !.phase = "AboveThresholdPending", !.crossT = t]
  ELSE IF h.phase = "AboveThresholdPending"
          /\ t - h.crossT >= InitialRecordingDuration
  THEN [h EXCEPT !.phase = "AwaitingSilence"]
  ELSE h

\* ... and with the silence timer: reset by a sample >= threshold, started
\* by a sample below it when not running.
ObservedEvent(h, below, t, previewCalled) ==
  LET e == ObservedEntry(h, below, t) IN
  [e EXCEPT !.previews = @ + (IF previewCalled THEN 1 ELSE 0),
            !.quietSince = IF e.phase # "AwaitingSilence" \/ ~below THEN Null
                           ELSE IF @ = Null THEN t ELSE @]

ObservedCrossing(h, below) == h.phase = "Idle" /\ ~below

ObservedPreviewDue(h, t) ==
  h.phase = "AboveThresholdPending" /\ t - h.crossT >= InitialRecordingDuration

ObservedComplete(e, t) ==
  /\ e.phase = "AwaitingSilence"
  /\ e.quietSince # Null
  /\ t - e.quietSince >= AmountOfSilenceMsBeforeOnSilenceIsTriggered

\* What one callback of the event loop did: the sampler that ticked (0 when
\* it was no tick), whether it was a call of stop(), whether it was a start()
\* whose promise rejected, the sample the tick read, the callbacks invoked in
\* the order of their invocation.
\* Blobs are sequences of length 0 or 1: the blob built, if any.
NoOut ==
  [sampler |-> 0, stop |-> FALSE, startRejected |-> FALSE, sample |-> Null,
   calls |-> << >>, periodic |-> << >>, below |-> FALSE,
   crossed |-> FALSE, previewTrigger |-> FALSE, previewBlob |-> << >>,
   previewCalled |-> FALSE, silenceTrigger |-> FALSE, completeBlob |-> << >>,
   completeCalled |-> FALSE,
   observed |-> [crossing |-> FALSE, previewDue |-> FALSE, complete |-> FALSE],
   event |-> NewHist]

(* ----------------- the other objects, as constructed ------------------- *)
\* Bounds of the AudioLoudnessMeter (V1) runs. Times are in volume check
\* intervals (volumeCheckInterval, 50 ms): the chunk spacing of line 289
\* (100 ms) is two of them, the pre-trigger buffer is rounded up to one.
MaxV1Time == 8
MaxDuration == 4
MaxSilenceDuration == 2
MaxV1Chunks == 2
MaxV1Starts == 2
ChunkSpacing == 2
PreTriggerBufferDuration == 1

\* AudioLoudnessMeter.ts line 53
V1LoudnessThreshold == 10
\* AudioLoudnessMeter.ts line 255
V1NumberOfChunksToCaptureAsHeaders == 2
V1Levels == {V1LoudnessThreshold - 1, V1LoudnessThreshold}
\* Date.now() when the instance is constructed: the clock reads milliseconds
\* since 1970, so no window that starts at audioStartPoint = 0 (its value
\* before the first event and after stop()) reaches the time of a chunk.
V1Epoch == MaxDuration + MaxV1Chunks * ChunkSpacing + 1

\* Bounds of the QueuedWebAudioPlayer runs. Times are in units of
\* AudioContext.currentTime; every clip is ClipLen units long.
MaxClips == 3
ClipLen == 2
MaxPlayerTime == 5

\* VoiceInteractionAudioService.ts line 13
ServiceLoudnessThreshold == 8
Volumes == {ServiceLoudnessThreshold, ServiceLoudnessThreshold + 1}

\* AudioLoudnessMeter.ts lines 23-63 and 74-78: the fields of a new instance
\* with the two durations of its configuration, then what the browser holds
\* for it (recorders, timers) and the locals of the interval's closure
\* (lines 174-175).
NewV1(initialRecordingDuration, silenceDuration) ==
  [config |-> [initialRecordingDuration |-> initialRecordingDuration,
               silenceDuration |-> silenceDuration],
   audioContext |-> FALSE,
   mediaStream |-> FALSE,
   analyser |-> FALSE,
   mediaRecorder |-> 0,
   isAnalyzing |-> FALSE,
   isRecording |-> FALSE,
   isInLoudnessEvent |-> FALSE,
   audioStartPoint |-> 0,
   audioChunks |-> << >>,
   headerChunks |-> << >>,
   lastChunkTimestamp |-> 0,
   hasCapturedHeaders |-> FALSE,
   volumeInterval |-> Null,
   silenceTimeout |-> Null,
   \* the browser's side
   recorders |-> << >>,        \* state of every MediaRecorder constructed
   initialBlobTimeouts |-> {}, \* due times of the timers of line 235
   pendingStart |-> FALSE,     \* start() is suspended at line 101
   starts |-> 0,               \* start() calls made
   delivered |-> 0,            \* dataavailable events delivered
   lastTick |-> 0,             \* when the interval last fired or was set
   \* the closure of the interval callback
   lastLoudnessOverThreshold |-> FALSE,
   silenceStartTime |-> Null]

\* Nothing observed: no event in flight, no recorder constructed.
NoV1Out ==
  [eventStart |-> Null,   \* when the event in flight was recognized
   previews |-> 0,        \* onAudioAboveThresholdDetected calls in that event
   stale |-> FALSE,       \* one of them came from an earlier event's timer
   created |-> 0,         \* recorders constructed since start() was called
   callback |-> "none",   \* the callback the last step invoked
   blob |-> << >>,        \* and the clip it passed
   loudSinceArmed |-> FALSE, \* a sample >= threshold was read since the
                             \* pending silence timer was set
   stopped |-> {},        \* the preview timers that were pending at a stop()
   timer |-> "none"]      \* the preview timer the last step ran: of the
                          \* event in flight ("current"), of an event that
                          \* has ended ("ended"), of a session that was
                          \* stopped ("stopped")

\* QueuedWebAudioPlayer.ts line 6: currentSource is undefined.
NoSource ==
  [clip |-> 0, offset |-> 0, startedAt |-> 0,
   sounding |-> FALSE, onended |-> FALSE]

\* QueuedWebAudioPlayer.ts lines 5-18, and line 13's chain of decodes.
NewPlayer ==
  [sourceQueue |-> << >>,
   currentSource |-> NoSource,
   isAudioBufferPlaying |-> FALSE,
   isPlaying |-> FALSE,
   hasMoreAudioChunks |-> TRUE,
   playbackPosition |-> 0,
   lastPauseTime |-> 0,
   totalElapsedTime |-> 0,
   currentBuffer |-> Null,
   enqueueProcessingPromise |-> << >>,  \* clips still to decode, in order
   enqueued |-> 0,                      \* enqueueAudio calls made
   \* sources that were started and still play although currentSource no
   \* longer refers to them
   unreferenced |-> 0]

\* VoiceInteractionAudioService.ts line 29
NewService ==
  [isQueuedAudioPlayerPausedDueToAudioLoundessThresholdExceeded |-> FALSE]

\* Nothing played yet.
NoPlayerOut ==
  [expected |-> << >>,        \* clips enqueued since the last stop()
   heard |-> << >>,           \* <<clip, position>> of every unit played since
   pausedForSpeech |-> FALSE, \* paused by a loud sample, silence not yet seen
   callback |-> "none",       \* the meter's callback the last step delivered
   paused |-> << >>]          \* <<clip, position>> where the last pause()
                              \* stopped a clip, play() not called since

(* -------------------------------- Init --------------------------------- *)
Init ==
  /\ now = Epoch
  /\ mimeTypeSupported \in BOOLEAN
  /\ isAnalyzing = FALSE
  /\ isRecording = FALSE
  /\ audioShouldStartAtThisDateTime = 0
  /\ audioChunks = << >>
  /\ headerChunks = << >>
  /\ callbacks = NoCallbacks
  /\ audioContext = FALSE
  /\ mediaStream = FALSE
  /\ analyser = FALSE
  /\ mediaRecorder = 0
  /\ periodicVolumeCalcIntervalId = Null
  /\ samplers = << >>
  /\ recorders = << >>
  /\ pendingStarts = 0
  /\ startCalls = 0
  /\ nextChunkId = 0
  /\ out = NoOut
  /\ hist = << >>
  /\ everLoud = FALSE
  /\ stopReturned = FALSE
  /\ sessionHeaders = << >>
  /\ v1 = NewV1(1, 1)
  /\ v1Out = NoV1Out
  /\ player = NewPlayer
  /\ service = NewService
  /\ playerOut = NoPlayerOut

(* ------------------------------ start() -------------------------------- *)
\* start() without the test of line 86: a call on an active instance
\* registers its callbacks and acquires the input device again.
StartCall_NoGuard(cb) ==
  /\ UNCHANGED otherVars
  /\ startCalls < MaxStarts
  /\ startCalls' = startCalls + 1
  /\ stopReturned' = FALSE
  /\ out' = NoOut
  /\ callbacks' = cb
  /\ audioContext' = TRUE
  /\ pendingStarts' = pendingStarts + 1
  /\ UNCHANGED <<now, mimeTypeSupported, isAnalyzing, isRecording,
                 audioShouldStartAtThisDateTime, audioChunks, headerChunks,
                 mediaStream, analyser, mediaRecorder,
                 periodicVolumeCalcIntervalId, samplers, recorders,
                 nextChunkId, hist, everLoud, sessionHeaders>>

\* lines 85-96: start() up to the await of getUserMedia.
StartCall(cb) ==
  /\ UNCHANGED otherVars
  /\ startCalls < MaxStarts
  /\ startCalls' = startCalls + 1
  /\ stopReturned' = FALSE
  /\ out' = NoOut
  /\ IF isAnalyzing
     THEN UNCHANGED <<callbacks, audioContext, pendingStarts>>
     ELSE /\ callbacks' = cb
          /\ audioContext' = TRUE
          /\ pendingStarts' = pendingStarts + 1
  /\ UNCHANGED <<now, mimeTypeSupported, isAnalyzing, isRecording,
                 audioShouldStartAtThisDateTime, audioChunks, headerChunks,
                 mediaStream, analyser, mediaRecorder,
                 periodicVolumeCalcIntervalId, samplers, recorders,
                 nextChunkId, hist, everLoud, sessionHeaders>>

\* lines 96-100: getUserMedia resolved; setupAudioAnalysis (104-114) with
\* startVolumeChecking (116-139), startRecording (192-214), isAnalyzing.
\* new MediaRecorder throws for an unsupported MIME type; startRecording is
\* an async function that start() does not await, so start() goes on.
StartResume ==
  /\ UNCHANGED otherVars
  /\ pendingStarts > 0
  /\ pendingStarts' = pendingStarts - 1
  /\ mediaStream' = TRUE
  /\ IF audioContext
     THEN /\ analyser' = TRUE
          /\ samplers' = Append(samplers, NewSampler)
          /\ hist' = Append(hist, NewHist)
          /\ periodicVolumeCalcIntervalId' = Len(samplers) + 1
     ELSE UNCHANGED <<analyser, samplers, hist, periodicVolumeCalcIntervalId>>
  /\ IF mimeTypeSupported
     THEN /\ recorders' = Append(recorders, "recording")
          /\ mediaRecorder' = Len(recorders) + 1
          /\ audioChunks' = << >>
          /\ isRecording' = TRUE
     ELSE UNCHANGED <<recorders, mediaRecorder, audioChunks, isRecording>>
  /\ isAnalyzing' = TRUE
  /\ out' = NoOut
  /\ UNCHANGED <<now, mimeTypeSupported, audioShouldStartAtThisDateTime,
                 headerChunks, callbacks, audioContext, startCalls,
                 nextChunkId, everLoud, stopReturned, sessionHeaders>>

\* line 96: getUserMedia rejects (no device, permission denied); the await
\* throws and the promise of start() rejects with that error.
StartFail ==
  /\ UNCHANGED otherVars
  /\ pendingStarts > 0
  /\ pendingStarts' = pendingStarts - 1
  /\ out' = [NoOut EXCEPT !.startRejected = TRUE]
  /\ UNCHANGED <<now, mimeTypeSupported, isAnalyzing, isRecording,
                 audioShouldStartAtThisDateTime, audioChunks, headerChunks,
                 callbacks, audioContext, mediaStream, analyser, mediaRecorder,
                 periodicVolumeCalcIntervalId, samplers, recorders, startCalls,
                 nextChunkId, hist, everLoud, stopReturned, sessionHeaders>>

(* ------------------------------- stop() -------------------------------- *)
\* lines 216-221
StopRecording(recs, mr) ==
  IF mr # 0 /\ recs[mr] = "recording"
  THEN [recs EXCEPT ![mr] = "stopped"]
  ELSE recs

\* clearInterval(id): the interval never fires again, its closure is garbage.
ClearedSampler == [NewSampler EXCEPT !.live = FALSE]

ClearInterval(ss, id) ==
  IF id \in DOMAIN ss THEN [ss EXCEPT ![id] = ClearedSampler] ELSE ss

\* stop() without the test of line 268: the teardown and the reset run on an
\* inactive instance too.
Stop_NoGuard ==
  /\ UNCHANGED otherVars
  /\ stopReturned' = TRUE
  /\ out' = [NoOut EXCEPT !.stop = TRUE]
  /\ samplers' = ClearInterval(samplers, periodicVolumeCalcIntervalId)
  /\ hist' = IF periodicVolumeCalcIntervalId \in DOMAIN hist
             THEN [hist EXCEPT ![periodicVolumeCalcIntervalId] = NewHist]
             ELSE hist
  /\ periodicVolumeCalcIntervalId' = Null
  /\ recorders' = StopRecording(recorders, mediaRecorder)
  /\ analyser' = FALSE
  /\ mediaStream' = FALSE
  /\ audioContext' = FALSE
  /\ isAnalyzing' = FALSE
  /\ isRecording' = FALSE
  /\ audioShouldStartAtThisDateTime' = 0
  /\ audioChunks' = << >>
  /\ headerChunks' = << >>
  /\ sessionHeaders' = << >>
  /\ UNCHANGED <<now, mimeTypeSupported, callbacks, mediaRecorder,
                 pendingStarts, startCalls, nextChunkId, everLoud>>

\* lines 267-298
Stop ==
  /\ UNCHANGED otherVars
  /\ stopReturned' = TRUE
  /\ out' = [NoOut EXCEPT !.stop = TRUE]
  /\ IF ~isAnalyzing
     THEN UNCHANGED <<isAnalyzing, isRecording, audioShouldStartAtThisDateTime,
                      audioChunks, headerChunks, audioContext, mediaStream,
                      analyser, periodicVolumeCalcIntervalId, samplers,
                      recorders, hist, sessionHeaders>>
     ELSE /\ samplers' = ClearInterval(samplers, periodicVolumeCalcIntervalId)
          /\ hist' = IF periodicVolumeCalcIntervalId \in DOMAIN hist
                     THEN [hist EXCEPT ![periodicVolumeCalcIntervalId] = NewHist]
                     ELSE hist
          /\ periodicVolumeCalcIntervalId' = Null
          /\ recorders' = StopRecording(recorders, mediaRecorder)
          /\ analyser' = FALSE
          /\ mediaStream' = FALSE
          /\ audioContext' = FALSE
          /\ isAnalyzing' = FALSE
          /\ isRecording' = FALSE
          /\ audioShouldStartAtThisDateTime' = 0
          /\ audioChunks' = << >>
          /\ headerChunks' = << >>
          /\ sessionHeaders' = << >>
  /\ UNCHANGED <<now, mimeTypeSupported, callbacks, mediaRecorder,
                 pendingStarts, startCalls, nextChunkId, everLoud>>

(* ------------------------- mediaRecorder events ------------------------ *)
\* ondataavailable putting the chunk at the front of audioChunks.
DataAvailable_Unshift(k, size) ==
  /\ UNCHANGED otherVars
  /\ k \in DOMAIN recorders
  /\ recorders[k] \in {"recording", "stopped"}
  /\ size > 0 => nextChunkId < MaxChunks
  /\ recorders' = [recorders EXCEPT
                     ![k] = IF @ = "stopped" THEN "inactive" ELSE @]
  /\ IF size > 0
     THEN LET chunk == [id |-> nextChunkId + 1, dateTimeBlobEnded |-> now] IN
          /\ headerChunks' =
               IF Len(headerChunks) < NumberOfChunksToCaptureAsHeaders
               THEN Append(headerChunks, chunk) ELSE headerChunks
          /\ audioChunks' = <<chunk>> \o audioChunks
          /\ nextChunkId' = nextChunkId + 1
          /\ sessionHeaders' =
               IF /\ isRecording /\ recorders[k] = "recording"
                  /\ Len(sessionHeaders) < NumberOfChunksToCaptureAsHeaders
               THEN Append(sessionHeaders, chunk) ELSE sessionHeaders
     ELSE UNCHANGED <<headerChunks, audioChunks, nextChunkId, sessionHeaders>>
  /\ out' = NoOut
  /\ UNCHANGED <<now, mimeTypeSupported, isAnalyzing, isRecording,
                 audioShouldStartAtThisDateTime, callbacks, audioContext,
                 mediaStream, analyser, mediaRecorder,
                 periodicVolumeCalcIntervalId, samplers, pendingStarts,
                 startCalls, hist, everLoud, stopReturned>>

\* lines 199-210: ondataavailable of recorder k.  A recording recorder
\* delivers a chunk per time slice; a stopped one delivers its last chunk.
DataAvailable(k, size) ==
  /\ UNCHANGED otherVars
  /\ k \in DOMAIN recorders
  /\ recorders[k] \in {"recording", "stopped"}
  /\ size > 0 => nextChunkId < MaxChunks
  /\ recorders' = [recorders EXCEPT
                     ![k] = IF @ = "stopped" THEN "inactive" ELSE @]
  /\ IF size > 0
     THEN LET chunk == [id |-> nextChunkId + 1, dateTimeBlobEnded |-> now] IN
          /\ headerChunks' =
               IF Len(headerChunks) < NumberOfChunksToCaptureAsHeaders
               THEN Append(headerChunks, chunk) ELSE headerChunks
          /\ audioChunks' = Append(audioChunks, chunk)
          /\ nextChunkId' = nextChunkId + 1
          /\ sessionHeaders' =
               IF /\ isRecording /\ recorders[k] = "recording"
                  /\ Len(sessionHeaders) < NumberOfChunksToCaptureAsHeaders
               THEN Append(sessionHeaders, chunk) ELSE sessionHeaders
     ELSE UNCHANGED <<headerChunks, audioChunks, nextChunkId, sessionHeaders>>
  /\ out' = NoOut
  /\ UNCHANGED <<now, mimeTypeSupported, isAnalyzing, isRecording,
                 audioShouldStartAtThisDateTime, callbacks, audioContext,
                 mediaStream, analyser, mediaRecorder,
                 periodicVolumeCalcIntervalId, samplers, pendingStarts,
                 startCalls, hist, everLoud, stopReturned>>

(* --------------------------- the sampler tick -------------------------- *)
\* The periodic callback skipped while an event awaits silence.
OnPeriodicVolumeInformation_NotInEvent(cbs, s, normalizedLoudness) ==
  IF cbs.periodic /\ ~s.processingAudioThresholdExceededEvent
  THEN << normalizedLoudness >> ELSE << >>

\* line 135: this.onPeriodicVolumeInformation?.(normalizedLoudness), the
\* values the callback is invoked with by a tick whose closure is s.
OnPeriodicVolumeInformation(cbs, s, normalizedLoudness) ==
  IF cbs.periodic THEN << normalizedLoudness >> ELSE << >>

\* lines 133-139: one firing of sampler i's interval, the analyser reading
\* normalizedLoudness (calculateLoudness yields 0 without an analyser).
Tick(i, normalizedLoudness) ==
  /\ UNCHANGED otherVars
  /\ i \in DOMAIN samplers
  /\ samplers[i].live
  /\ normalizedLoudness \in (IF analyser THEN Levels ELSE {0})
  /\ LET isLoud == IsLoudnessOverThreshold(normalizedLoudness)
         ld == LoudnessDetection(samplers[i], isLoud,
                                 audioShouldStartAtThisDateTime, now)
         previewBlob ==
           IF ld.trigger
           THEN TriggerOnAudioAboveThresholdDetected(
                  isRecording, audioChunks, headerChunks, ld.start)
           ELSE << >>
         sd == SilenceDetection(ld.s, isLoud, now)
         completeBlob ==
           IF sd.trigger
           THEN TriggerOnSilenceDetected(
                  isRecording, audioChunks, headerChunks, ld.start)
           ELSE << >>
         previewCalled == previewBlob # << >> /\ callbacks.preview
         periodic ==
           IF OnPeriodicVolumeInformation(
                callbacks, samplers[i], normalizedLoudness) # << >>
           THEN << "periodic" >> ELSE << >>
         event == ObservedEvent(hist[i], Below(normalizedLoudness), now,
                                previewCalled)
     IN
     /\ samplers' = [samplers EXCEPT ![i] = sd.s]
     /\ audioShouldStartAtThisDateTime' = ld.start
     /\ out' = [sampler |-> i,
                stop |-> FALSE,
                startRejected |-> FALSE,
                sample |-> normalizedLoudness,
                calls |-> periodic
                          \o (IF previewCalled THEN << "preview" >> ELSE << >>)
                          \o (IF completeBlob # << >> /\ callbacks.silence
                              THEN << "silence" >> ELSE << >>),
                periodic |-> OnPeriodicVolumeInformation(
                               callbacks, samplers[i], normalizedLoudness),
                below |-> Below(normalizedLoudness),
                crossed |-> ld.crossed,
                previewTrigger |-> ld.trigger,
                previewBlob |-> previewBlob,
                previewCalled |-> previewCalled,
                silenceTrigger |-> sd.trigger,
                completeBlob |-> completeBlob,
                completeCalled |-> completeBlob # << >> /\ callbacks.silence,
                observed |->
                  [crossing |->
                     ObservedCrossing(hist[i], Below(normalizedLoudness)),
                   previewDue |-> ObservedPreviewDue(hist[i], now),
                   complete |-> ObservedComplete(event, now)],
                event |-> event]
     /\ hist' = [hist EXCEPT ![i] = IF ObservedComplete(event, now)
                                    THEN [NewHist EXCEPT !.done = TRUE]
                                    ELSE event]
     /\ everLoud' = (everLoud \/ ~Below(normalizedLoudness))
  /\ UNCHANGED <<now, mimeTypeSupported, isAnalyzing, isRecording, audioChunks,
                 headerChunks, callbacks, audioContext, mediaStream, analyser,
                 mediaRecorder, periodicVolumeCalcIntervalId, recorders,
                 pendingStarts, startCalls, nextChunkId, stopReturned,
                 sessionHeaders>>

(* ------------------------------- time ---------------------------------- *)
\* Samplers whose interval stop() can no longer clear.
Leaked ==
  {i \in DOMAIN samplers :
     samplers[i].live /\ i # periodicVolumeCalcIntervalId}

\* A session is running although stop() was the last call made.
RunsAfterStop == stopReturned /\ isAnalyzing

\* Date.now() moves on between two callbacks.
Advance ==
  /\ UNCHANGED otherVars
  /\ now < Epoch + (IF Leaked = {} /\ ~RunsAfterStop
                    THEN MaxTime ELSE MaxOverlapTime)
  /\ now' = now + 1
  /\ out' = NoOut
  /\ UNCHANGED <<mimeTypeSupported, isAnalyzing, isRecording,
                 audioShouldStartAtThisDateTime, audioChunks, headerChunks,
                 callbacks, audioContext, mediaStream, analyser, mediaRecorder,
                 periodicVolumeCalcIntervalId, samplers, recorders,
                 pendingStarts, startCalls, nextChunkId, hist, everLoud,
                 stopReturned, sessionHeaders>>

Next ==
  \/ \E cb \in CallbackChoices : StartCall(cb)
  \/ StartResume
  \/ StartFail
  \/ Stop
  \/ \E k \in DOMAIN recorders, size \in {0, 1} : DataAvailable(k, size)
  \/ \E i \in DOMAIN samplers, v \in Levels \cup {0} : Tick(i, v)
  \/ Advance

Spec == Init /\ [][Next]_vars

(* ============================ properties =============================== *)
\* The chunks of a sequence, and the part of a blob after the header chunks.
Elems(seq) == {seq[j] : j \in DOMAIN seq}

Payload(blob) == SubSeq(blob.parts, Len(headerChunks) + 1, Len(blob.parts))

\* C1: as long as every sample read by every tick is strictly below
\* loudnessThreshold, no tick builds a preview or a complete clip and neither
\* onAudioAboveThresholdDetected nor onSilenceDetected is invoked, whatever
\* chunks have arrived.
C1_NoClipWhileBelowThreshold ==
  ~everLoud =>
    /\ ~out.previewCalled /\ out.previewBlob = << >>
    /\ ~out.completeCalled /\ out.completeBlob = << >>
    /\ ~out.previewTrigger /\ ~out.silenceTrigger

\* C1 witness: the last instant, both callbacks registered, chunks buffered,
\* a tick has just run and no sample has reached the threshold.
C1_Witness ==
  /\ ~everLoud /\ out.sampler # 0 /\ out.below
  /\ callbacks.preview /\ callbacks.silence
  /\ isRecording /\ Len(audioChunks) >= 2
  /\ now = Epoch + MaxTime

\* C2: between the tick that recognizes a crossing and the tick that
\* returns the machine to Idle, a sampler invokes the preview callback at
\* most once, however the samples move around the threshold meanwhile.
C2_AtMostOnePreviewPerEvent ==
  /\ \A i \in DOMAIN hist : hist[i].previews <= 1
  /\ out.event.previews <= 1

\* C2 witness: the preview of the event was delivered at an earlier instant,
\* the event still awaits silence, and a tick reads a sample >= threshold.
C2_Witness ==
  \E i \in DOMAIN hist :
    /\ out.sampler = i /\ ~out.below /\ ~out.previewTrigger
    /\ hist[i].phase = "AwaitingSilence"
    /\ hist[i].previews = 1
    /\ now > hist[i].crossT + InitialRecordingDuration


\* The buffered chunks whose end timestamp lies in the preview window of a
\* crossing recognized at tick time T.
PreviewWindowOf(T) ==
  {c \in Elems(audioChunks) :
     /\ c.dateTimeBlobEnded >= T - MsBeforeThreshold
     /\ c.dateTimeBlobEnded <=
          T - MsBeforeThreshold + InitialRecordingDuration}

\* C3: a crossing recognized at tick time T, capture going on (the session
\* records and a chunk ended inside the window) and the preview callback
\* registered: the tick at which the preview is due delivers the one preview
\* of the event, and its payload is exactly the buffered chunks whose end
\* timestamp lies in [T - leadIn, T - leadIn + previewDuration].
C3_PreviewCoversWindow ==
  (/\ out.observed.previewDue
   /\ isRecording /\ callbacks.preview
   /\ PreviewWindowOf(out.event.crossT) # {})
  => /\ out.previewCalled
     /\ out.event.previews = 1
     /\ out.previewBlob # << >>
     /\ Elems(Payload(out.previewBlob[1])) = PreviewWindowOf(out.event.crossT)

\* C3 restricted to runs in which no sampler has leaked.
C3_PreviewCoversWindow_NoOverlap ==
  Leaked = {} => C3_PreviewCoversWindow

\* C4: a tick invokes the complete callback (or builds a complete clip)
\* only while the event awaits silence, on a sample below the threshold, when
\* every sample since the silence timer started was below the threshold and
\* the timer has run for at least silenceDuration; a tick whose sample is
\* >= threshold never delivers a complete clip.
C4_CompleteOnlyAfterSilence ==
  (out.completeCalled \/ out.completeBlob # << >> \/ out.silenceTrigger)
  => /\ out.event.phase = "AwaitingSilence"
     /\ out.below
     /\ out.event.quietSince # Null
     /\ now - out.event.quietSince
          >= AmountOfSilenceMsBeforeOnSilenceIsTriggered

\* C4 witness: the complete callback is invoked for an event whose silence
\* timer started later than the instant after the preview was due.
C4_Witness ==
  /\ out.completeCalled
  /\ out.event.quietSince
       > out.event.crossT + InitialRecordingDuration + 1

\* C5: while the event awaits silence and the samples have been below the
\* threshold since the tick at time D, a tick completes the event (calls the
\* silence trigger and leaves the machine Idle) exactly when its time is
\* >= D + silenceDuration: the first such tick, and no earlier one.
C5_CompletesAtDropPlusSilence ==
  (/\ out.sampler # 0
   /\ out.event.phase = "AwaitingSilence"
   /\ out.below)
  => /\ out.silenceTrigger <=>
          (now - out.event.quietSince
             >= AmountOfSilenceMsBeforeOnSilenceIsTriggered)
     /\ out.silenceTrigger =>
          /\ ~samplers[out.sampler].processingAudioThresholdExceededEvent
          /\ samplers[out.sampler].silenceDetectedStartTime = Null
          /\ samplers[out.sampler].loudnessDetectedStartTime = Null
     /\ ~out.silenceTrigger =>
          samplers[out.sampler].processingAudioThresholdExceededEvent

\* C5 witness: crossing at the first instant, the samples drop one instant
\* after the preview is due, and the event completes silenceDuration later.
C5_Witness ==
  /\ out.silenceTrigger
  /\ out.event.crossT = Epoch
  /\ out.event.quietSince = Epoch + InitialRecordingDuration + 1
  /\ now = out.event.quietSince + AmountOfSilenceMsBeforeOnSilenceIsTriggered

\* The buffered chunks that ended at or after the start point of an event
\* whose crossing was recognized at tick time T.
CompleteWindowOf(T) ==
  {c \in Elems(audioChunks) : c.dateTimeBlobEnded >= T - MsBeforeThreshold}

\* C6: the payload of every complete clip is exactly the chunks recorded (and
\* buffered) in the session whose end timestamp is >= the crossing time of
\* the event minus the lead-in.
C6_CompleteCoversEvent ==
  out.completeBlob # << >> =>
    Elems(Payload(out.completeBlob[1])) = CompleteWindowOf(out.event.crossT)

\* C6 restricted to runs in which no sampler has leaked.
C6_CompleteCoversEvent_NoOverlap ==
  Leaked = {} => C6_CompleteCoversEvent

\* The closure of a machine that is Idle.
IsIdle(s) ==
  /\ s.loudnessDetectedStartTime = Null
  /\ s.silenceDetectedStartTime = Null
  /\ ~s.processingAudioThresholdExceededEvent

\* The blobs the last tick built.
BlobsOut == Elems(out.previewBlob) \cup Elems(out.completeBlob)

\* C7: the tick that completes an event leaves the machine Idle; a tick of
\* an Idle machine (in particular the first one after a completed event)
\* whose sample is >= threshold starts an event with audioStartPoint = that
\* tick's time minus the lead-in; and no preview or complete payload of the
\* event holds a chunk that ended before that start point.
C7_NewEventAfterCompletion ==
  out.sampler # 0 =>
    /\ out.observed.complete => IsIdle(samplers[out.sampler])
    /\ out.observed.crossing =>
         /\ out.crossed
         /\ audioShouldStartAtThisDateTime = now - MsBeforeThreshold
         /\ samplers[out.sampler].loudnessDetectedStartTime = now
    /\ \A b \in BlobsOut : \A c \in Elems(Payload(b)) :
         c.dateTimeBlobEnded >= out.event.crossT - MsBeforeThreshold

\* C7 witness: the preview of a second event of the same sampler is delivered,
\* while the buffer still holds a chunk that ended before its start point.
C7_Witness ==
  /\ out.event.done
  /\ out.previewCalled
  /\ \E c \in Elems(audioChunks) :
       c.dateTimeBlobEnded < out.event.crossT - MsBeforeThreshold

\* C8: a tick recognizes a crossing (and assigns
\* audioShouldStartAtThisDateTime) only when its machine is Idle, and while an
\* event is in flight audioShouldStartAtThisDateTime stays what the crossing
\* tick made it, so the preview and the complete clip use one lower bound.
C8_StartPointFixedDuringEvent ==
  /\ out.crossed => out.observed.crossing
  /\ \A i \in DOMAIN hist :
       hist[i].phase # "Idle" =>
         audioShouldStartAtThisDateTime = hist[i].crossT - MsBeforeThreshold
  /\ out.event.phase # "Idle" =>
       audioShouldStartAtThisDateTime = out.event.crossT - MsBeforeThreshold

\* C8 restricted to runs in which no sampler has leaked.
C8_StartPointFixedDuringEvent_NoOverlap ==
  Leaked = {} => C8_StartPointFixedDuringEvent

\* Chunk ids grow in arrival order.
InArrivalOrder(seq) ==
  \A j, k \in DOMAIN seq : j < k => seq[j].id < seq[k].id

\* C9: every blob built is the header chunks in capture order followed by
\* the selected chunks in arrival order, typed with the configured MIME
\* type; the selection is the buffered chunks inside the window.
C9_BlobIsHeadersThenSelection ==
  /\ \A b \in BlobsOut :
       /\ b.type = CurrentMimeType
       /\ Len(b.parts) >= Len(headerChunks)
       /\ SubSeq(b.parts, 1, Len(headerChunks)) = headerChunks
       /\ InArrivalOrder(headerChunks)
       /\ InArrivalOrder(Payload(b))
  /\ \A b \in Elems(out.previewBlob) :
       Elems(Payload(b)) =
         {c \in Elems(audioChunks) :
            /\ c.dateTimeBlobEnded >= audioShouldStartAtThisDateTime
            /\ c.dateTimeBlobEnded <=
                 audioShouldStartAtThisDateTime + InitialRecordingDuration}
  /\ \A b \in Elems(out.completeBlob) :
       Elems(Payload(b)) =
         {c \in Elems(audioChunks) :
            c.dateTimeBlobEnded >= audioShouldStartAtThisDateTime}

\* C9 witness: a complete clip with both headers, at least two payload chunks
\* and a payload chunk that is not a header.
C9_Witness ==
  \E b \in Elems(out.completeBlob) :
    /\ Len(headerChunks) = NumberOfChunksToCaptureAsHeaders
    /\ Len(Payload(b)) >= 2
    /\ \E c \in Elems(Payload(b)) : c \notin Elems(headerChunks)

\* C10: when a trigger finds recording inactive, the buffer empty or its
\* selection empty, it builds no blob and invokes no callback, and the tick
\* goes on as usual (the machine takes its transition).
C10_EmptySelectionIsSilent ==
  /\ (/\ out.previewTrigger
      /\ \/ ~isRecording
         \/ audioChunks = << >>
         \/ PreviewChunks(audioChunks, audioShouldStartAtThisDateTime) = << >>)
     => /\ out.previewBlob = << >> /\ ~out.previewCalled
        /\ samplers[out.sampler].loudnessDetectedStartTime = Null
        /\ \/ samplers[out.sampler].processingAudioThresholdExceededEvent
           \/ out.silenceTrigger
  /\ (/\ out.silenceTrigger
      /\ \/ ~isRecording
         \/ audioChunks = << >>
         \/ CompleteChunks(audioChunks, audioShouldStartAtThisDateTime) = << >>)
     => /\ out.completeBlob = << >> /\ ~out.completeCalled
        /\ IsIdle(samplers[out.sampler])

\* C10 witness: the preview is due while recording, with chunks buffered and
\* the callback registered, and no buffered chunk ended inside the window.
C10_Witness ==
  /\ out.previewTrigger /\ isRecording /\ callbacks.preview
  /\ audioChunks # << >>
  /\ PreviewChunks(audioChunks, audioShouldStartAtThisDateTime) = << >>

\* Chunks are time slices: the chunk that ended at t holds the audio of the
\* unit of time before t.  The buffer covers the preview window of a start
\* point when a buffered chunk ended at every instant after the start point
\* up to the end of the window.
WindowCovered(chunks, start) ==
  \A t \in (start + 1)..(start + InitialRecordingDuration) :
    \E c \in Elems(chunks) : c.dateTimeBlobEnded = t

\* C11: no preview clip is built (and none delivered) when the buffered
\* chunks do not cover the whole window
\* [audioStartPoint, audioStartPoint + previewDuration].
C11_NoPreviewOfPartialWindow ==
  (out.previewBlob # << >> \/ out.previewCalled)
  => WindowCovered(audioChunks, audioShouldStartAtThisDateTime)

\* Runs in which the caller awaits every start() before it calls start()
\* again, and the final chunk of a stopped recorder is empty.
NextAwaited ==
  \/ \E cb \in CallbackChoices : pendingStarts = 0 /\ StartCall(cb)
  \/ StartResume
  \/ StartFail
  \/ Stop
  \/ \E k \in DOMAIN recorders, size \in {0, 1} :
       /\ recorders[k] = "stopped" => size = 0
       /\ DataAvailable(k, size)
  \/ \E i \in DOMAIN samplers, v \in Levels \cup {0} : Tick(i, v)
  \/ Advance

SpecAwaited == Init /\ [][NextAwaited]_vars

\* C12: the header set never holds more than numberOfChunksToCaptureAsHeaders
\* chunks; while a session is active it is the first non-empty chunks the
\* session's recording delivered, in arrival order; and once it holds
\* numberOfChunksToCaptureAsHeaders chunks no step changes it while the
\* session goes on.
C12_HeadersAreFirstSessionChunks ==
  /\ [](/\ Len(headerChunks) <= NumberOfChunksToCaptureAsHeaders
        /\ InArrivalOrder(headerChunks)
        /\ isAnalyzing => headerChunks = sessionHeaders)
  /\ [][(/\ Len(headerChunks) = NumberOfChunksToCaptureAsHeaders
         /\ isAnalyzing /\ isAnalyzing')
        => headerChunks' = headerChunks]_vars

\* C13: the tick that completes an event (AwaitingSilence to Idle) leaves
\* the main chunk buffer empty and the header set as it was.
C13_BufferRestartedAtCompletion ==
  [][out'.observed.complete =>
       /\ audioChunks' = << >>
       /\ headerChunks' = headerChunks]_vars

\* C14: after the tick that completes an event, and in every state in which
\* every sampler's machine is Idle, audioShouldStartAtThisDateTime holds its
\* initial value 0.
C14_StartPointClearedWhenIdle ==
  /\ out.observed.complete => audioShouldStartAtThisDateTime = 0
  /\ (\A i \in DOMAIN hist : hist[i].phase = "Idle")
       => audioShouldStartAtThisDateTime = 0

\* C15: a call of start() on an instance whose session is active
\* (isAnalyzing) creates no recorder and no sampler interval, suspends at no
\* device acquisition, and leaves the registered callbacks, the samplers'
\* state, the chunk buffer, the header set and every other field unchanged.
C15_StartWhileActiveIsNoOp ==
  [][(startCalls' # startCalls /\ isAnalyzing) =>
       UNCHANGED <<callbacks, samplers, recorders, mediaRecorder,
                   periodicVolumeCalcIntervalId, pendingStarts, audioChunks,
                   headerChunks, audioShouldStartAtThisDateTime, isAnalyzing,
                   isRecording, audioContext, mediaStream, analyser>>]_vars

\* C15 witness: two calls of start() were made, no stop(), and there is one
\* sampler and one recorder with none left to resume: the second call found
\* the session active, with callbacks registered, while it went on to buffer
\* chunks and to an event awaiting silence.
C15_Witness ==
  /\ startCalls = 2 /\ pendingStarts = 0 /\ isAnalyzing
  /\ Len(samplers) = 1 /\ samplers[1].live /\ Len(recorders) = 1
  /\ samplers[1].processingAudioThresholdExceededEvent
  /\ audioChunks # << >> /\ callbacks = AllCallbacks

\* The sampler intervals that still fire and the recorders that still record.
LiveSamplers == {i \in DOMAIN samplers : samplers[i].live}

RunningRecorders == {k \in DOMAIN recorders : recorders[k] = "recording"}

\* C16: at most one sampler interval and one recorder exist at any time,
\* also when start() calls overlap, and once stop() has returned with no
\* start() called since, no interval fires and no recorder records.
C16_AtMostOneSession ==
  /\ Cardinality(LiveSamplers) <= 1
  /\ Cardinality(RunningRecorders) <= 1
  /\ (out.stop /\ pendingStarts = 0) =>
       (LiveSamplers = {} /\ RunningRecorders = {})

\* C17: while stop() has returned and start() has not been called since, no
\* callback of the event loop invokes onPeriodicVolumeInformation,
\* onAudioAboveThresholdDetected or onSilenceDetected.
C17_NoCallbackAfterStop ==
  stopReturned =>
    /\ out.periodic = << >>
    /\ ~out.previewCalled
    /\ ~out.completeCalled

\* The state a newly constructed instance is in when its first start() has
\* resumed: one sampler with fresh closure variables, one recorder when the
\* MIME type is supported, nothing buffered, no start point.
FreshSession ==
  /\ isAnalyzing
  /\ isRecording = mimeTypeSupported
  /\ audioShouldStartAtThisDateTime = 0
  /\ audioChunks = << >>
  /\ headerChunks = << >>
  /\ LiveSamplers = {periodicVolumeCalcIntervalId}
  /\ \A i \in LiveSamplers : samplers[i] = NewSampler
  /\ RunningRecorders = (IF mimeTypeSupported THEN {mediaRecorder} ELSE {})

\* C18: when a start() called after stop() (an earlier session existed and
\* is over, stop() was not called since this start()) resumes, the instance
\* is in the state of a newly constructed one whose start() has resumed, so
\* the same samples and chunks give the same callbacks and blobs: no sampler
\* state, start point, buffered chunk or header chunk is carried over.
C18_RestartIsFresh ==
  [][(/\ pendingStarts = 1 /\ pendingStarts' = 0
      /\ ~isAnalyzing /\ ~stopReturned
      /\ samplers # << >>)
     => FreshSession']_vars

\* C19: while stop() has returned, no start() was called since and the
\* instance is inactive, the chunk buffer and the header set are empty,
\* whatever the recorders deliver meanwhile.
C19_BuffersEmptyAfterStop ==
  (stopReturned /\ ~isAnalyzing /\ pendingStarts = 0) =>
    /\ audioChunks = << >>
    /\ headerChunks = << >>

\* C20: a call of stop() on an instance that is not active (never started,
\* already stopped, or its start() not yet resumed) changes no field, no
\* sampler and no recorder: stop();stop() leaves what one stop() left.
C20_StopIsIdempotent ==
  [][(out'.stop /\ ~isAnalyzing) =>
       UNCHANGED <<isAnalyzing, isRecording, audioShouldStartAtThisDateTime,
                   audioChunks, headerChunks, callbacks, audioContext,
                   mediaStream, analyser, mediaRecorder,
                   periodicVolumeCalcIntervalId, samplers, recorders,
                   pendingStarts>>]_vars

\* C20 witness: stop() has just returned on an instance whose session was
\* stopped before: the buffer holds a chunk, which the stop() of an active
\* session would have removed.
C20_Witness ==
  /\ out.stop /\ ~isAnalyzing /\ pendingStarts = 0
  /\ samplers # << >>
  /\ audioChunks # << >>

\* C21: when the promise of start() rejects because the input device could
\* not be acquired, the instance is in its initial state: no audio context,
\* no stream, no analyser, no timer, no recorder, isAnalyzing false.
C21_FailedStartLeavesInitialState ==
  out.startRejected =>
    /\ ~audioContext /\ ~mediaStream /\ ~analyser
    /\ periodicVolumeCalcIntervalId = Null
    /\ mediaRecorder = 0
    /\ ~isAnalyzing

\* C22: when the recorder cannot be created for the configured MIME type,
\* the start() that resumes fails with the error, and leaves isAnalyzing
\* false and no sampler interval firing.
C22_UnsupportedMimeTypeFailsStart ==
  [][(pendingStarts' < pendingStarts /\ ~mimeTypeSupported) =>
       /\ out'.startRejected
       /\ ~isAnalyzing'
       /\ LiveSamplers' = {}]_vars

\* C23: a start() that resumes without an error creates exactly one
\* recorder; while the session stays active no step creates or stops a
\* recorder; and a tick, whatever clip it emits, leaves every recorder as it
\* is.
C23_OneRecorderPerSession ==
  [][/\ (pendingStarts' < pendingStarts /\ ~out'.startRejected)
          => Len(recorders') = Len(recorders) + 1
     /\ (isAnalyzing /\ isAnalyzing')
          => /\ Len(recorders') = Len(recorders)
             /\ RunningRecorders' = RunningRecorders
     /\ out'.sampler # 0 => recorders' = recorders]_vars

\* C23 for an environment that supports the MIME type (checked for the runs
\* of SpecAwaited).
C23_OneRecorderPerSession_Supported ==
  [][mimeTypeSupported =>
     /\ (pendingStarts' < pendingStarts /\ ~out'.startRejected)
          => Len(recorders') = Len(recorders) + 1
     /\ (isAnalyzing /\ isAnalyzing')
          => /\ Len(recorders') = Len(recorders)
             /\ RunningRecorders' = RunningRecorders
     /\ out'.sampler # 0 => recorders' = recorders]_vars

\* The number of entries of a sequence that are equal to x.
Count(seq, x) == Cardinality({j \in DOMAIN seq : seq[j] = x})

\* C24: every tick invokes a registered onPeriodicVolumeInformation exactly
\* once, with the sample that tick read and before any other callback of the
\* tick, whatever state the sampler's machine is in.
C24_PeriodicOncePerTick ==
  out.sampler # 0 =>
    /\ callbacks.periodic =>
         /\ out.periodic = << out.sample >>
         /\ Count(out.calls, "periodic") = 1
         /\ out.calls[1] = "periodic"
    /\ ~callbacks.periodic => out.periodic = << >>

\* C24 witness: a tick of a machine that was already awaiting silence reads a
\* sample >= threshold and the periodic callback is invoked with it.
C24_Witness ==
  /\ out.sampler # 0 /\ ~out.below /\ ~out.previewTrigger
  /\ out.event.phase = "AwaitingSilence"
  /\ out.periodic = << LoudnessThreshold >>

\* C29: on every tick of a sampler whose crossing was recognized at T and
\* whose preview has not been due yet (now - T < previewDuration), whatever
\* the sample, the closure stays pending (loudnessDetectedStartTime = T, no
\* preview attempt, not awaiting silence); on the first tick with
\* now - T >= previewDuration the preview trigger is called and the closure
\* awaits silence (or, the silence duration already over, is Idle again).
C29_PendingUntilPreviewDue ==
  out.sampler # 0 =>
    /\ out.event.phase = "AboveThresholdPending" =>
         /\ samplers[out.sampler].loudnessDetectedStartTime = out.event.crossT
         /\ ~samplers[out.sampler].processingAudioThresholdExceededEvent
         /\ ~out.previewTrigger
    /\ out.observed.previewDue =>
         /\ out.previewTrigger
         /\ samplers[out.sampler].loudnessDetectedStartTime = Null
         /\ \/ samplers[out.sampler].processingAudioThresholdExceededEvent
            \/ out.silenceTrigger

\* C29 witness: a tick after the crossing tick and before the preview is due
\* reads a sample below the threshold.
C29_Witness ==
  /\ out.sampler # 0 /\ out.below
  /\ out.event.phase = "AboveThresholdPending"
  /\ now > out.event.crossT
  /\ now - out.event.crossT < InitialRecordingDuration

\* The instant from which the microphone stays below the threshold in the
\* runs of SpecLive, early enough for an event that began just before it to
\* complete by MaxTime.
QuietFrom ==
  Epoch + MaxTime - InitialRecordingDuration
    - AmountOfSilenceMsBeforeOnSilenceIsTriggered + 1

\* The interval has fired at this instant (or there is no interval).
TickedThisInstant == LiveSamplers = {} \/ out.sampler \in LiveSamplers

\* A tick of sampler i in a run whose samples stay below the threshold from
\* QuietFrom on.
QuietingTick(i) ==
  \E v \in Levels \cup {0} : (now >= QuietFrom => Below(v)) /\ Tick(i, v)

\* Runs in which start() calls are awaited, stop() is not called while a
\* start() is suspended, the interval fires at every instant (the clock moves
\* on only after a tick) and the samples stay below the threshold from
\* QuietFrom on.
NextLive ==
  \/ \E cb \in CallbackChoices : pendingStarts = 0 /\ StartCall(cb)
  \/ StartResume
  \/ pendingStarts = 0 /\ Stop
  \/ \E k \in DOMAIN recorders, size \in {0, 1} : DataAvailable(k, size)
  \/ \E i \in DOMAIN samplers : QuietingTick(i)
  \/ TickedThisInstant /\ Advance

\* setInterval keeps firing a live interval, and the clock keeps moving.
SpecLive ==
  /\ Init /\ [][NextLive]_vars
  /\ SF_vars(TickedThisInstant /\ Advance)
  /\ \A i \in 1..MaxStarts : WF_vars(i \in DOMAIN samplers /\ QuietingTick(i))

\* Sampler i is live and its event awaits silence.
Awaiting(i) ==
  /\ i \in DOMAIN samplers
  /\ samplers[i].live
  /\ samplers[i].processingAudioThresholdExceededEvent

\* C30: a tick of an event that awaits silence and reads a sample >=
\* threshold leaves the event awaiting silence with the silence timer
\* stopped, however long the event has lasted; and when ticks keep firing and
\* the samples stay below the threshold in the end, every event that awaits
\* silence completes (its machine is Idle again) unless the session is
\* stopped.
C30_EventEndsAfterSilence ==
  /\ [](\A i \in DOMAIN samplers :
          (out.sampler = i /\ ~out.below /\ out.event.phase = "AwaitingSilence")
          => /\ Awaiting(i)
             /\ samplers[i].silenceDetectedStartTime = Null
             /\ ~out.silenceTrigger)
  /\ \A i \in 1..MaxStarts : Awaiting(i) ~> ~Awaiting(i)

\* C30 witness: an event whose silence timer was started later than the tick
\* of its preview, because a sample >= threshold came while it awaited
\* silence, completes after the samples have stayed below the threshold.
C30_Witness ==
  /\ out.silenceTrigger /\ out.completeCalled
  /\ out.event.quietSince >= QuietFrom
  /\ out.event.quietSince > out.event.crossT + InitialRecordingDuration

(* ================== AudioLoudnessMeter (V1) ============================ *)
\* The state of the AudioLoudnessMeterV3 instance, the clock apart.
v3vars == <<mimeTypeSupported, isAnalyzing, isRecording,
            audioShouldStartAtThisDateTime, audioChunks, headerChunks,
            callbacks, audioContext, mediaStream, analyser, mediaRecorder,
            periodicVolumeCalcIntervalId, samplers, recorders, pendingStarts,
            startCalls, nextChunkId, out, hist, everLoud, stopReturned,
            sessionHeaders>>

\* lines 289 and 310: the time the code gives the chunk at (1-based) index i
ChunkTime(m, i) ==
  m.lastChunkTimestamp - (Len(m.audioChunks) - i) * ChunkSpacing

\* lines 242-273 without the handler, which is V1DataAvailable
StartContinuousRecording(m) ==
  [m EXCEPT !.recorders = Append(@, "recording"),
            !.mediaRecorder = Len(m.recorders) + 1,
            !.audioChunks = << >>,
            !.headerChunks = IF m.hasCapturedHeaders THEN @ ELSE << >>,
            !.isRecording = TRUE,
            !.lastChunkTimestamp = now]

\* lines 275-280: MediaRecorder.stop() queues a last dataavailable event
V1StopRecording(m) ==
  [m EXCEPT !.recorders =
              IF m.mediaRecorder # 0 /\ @[m.mediaRecorder] = "recording"
              THEN [@ EXCEPT ![m.mediaRecorder] = "stopping"] ELSE @,
            !.isRecording = FALSE]

\* lines 282-301: the clip sendInitialBlob passes to the callback, << >> when
\* it returns without calling it; the filter keeps the chunks at the indices
\* whose time is in the window, in the order of the buffer
InitialBlob(m) ==
  LET kept == SelectSeq([i \in 1..Len(m.audioChunks) |-> i],
                LAMBDA i : /\ ChunkTime(m, i) >= m.audioStartPoint
                           /\ ChunkTime(m, i)
                                <= m.audioStartPoint
                                   + m.config.initialRecordingDuration)
      relevantChunks == [j \in 1..Len(kept) |-> m.audioChunks[kept[j]]]
  IN IF ~m.isRecording \/ Len(m.audioChunks) = 0 \/ Len(relevantChunks) = 0
     THEN << >>
     ELSE m.headerChunks \o relevantChunks

\* lines 303-321: the same for sendCompleteBlob
CompleteBlob(m) ==
  LET kept == SelectSeq([i \in 1..Len(m.audioChunks) |-> i],
                LAMBDA i : ChunkTime(m, i) >= m.audioStartPoint)
      relevantChunks == [j \in 1..Len(kept) |-> m.audioChunks[kept[j]]]
  IN IF ~m.isRecording \/ Len(m.audioChunks) = 0 \/ Len(relevantChunks) = 0
     THEN << >>
     ELSE m.headerChunks \o relevantChunks

\* lines 221-240
HandleLoudnessDetected(m) ==
  IF m.isInLoudnessEvent THEN m
  ELSE [m EXCEPT !.silenceTimeout = Null,
                 !.audioStartPoint = now - PreTriggerBufferDuration,
                 !.isInLoudnessEvent = TRUE,
                 !.initialBlobTimeouts =
                    @ \cup {now + m.config.initialRecordingDuration}]

\* lines 323-337 without the timer's callback, which is V1SilenceTimeout
ResetSilenceDetection(m) ==
  [m EXCEPT !.silenceTimeout = now + m.config.silenceDuration]

\* lines 80-101: start() up to the await of getUserMedia. The callbacks are
\* all supplied; a start() is called only while none is suspended.
V1StartCall ==
  /\ v1.starts < MaxV1Starts
  /\ ~v1.pendingStart
  /\ IF v1.isAnalyzing
     THEN /\ v1' = [v1 EXCEPT !.starts = @ + 1]
          /\ v1Out' = [v1Out EXCEPT !.callback = "none", !.blob = << >>,
                            !.timer = "none"]
     ELSE /\ v1' = [v1 EXCEPT !.starts = @ + 1,
                              !.audioContext = TRUE,
                              !.pendingStart = TRUE]
          /\ v1Out' = [v1Out EXCEPT !.created = 0,
                                    !.callback = "none", !.blob = << >>,
                            !.timer = "none"]
  /\ UNCHANGED <<now, v3vars, player, service, playerOut>>

\* lines 101-115: getUserMedia resolved; setupAudioAnalysis (155-168),
\* startVolumeChecking (170-177) and startContinuousRecording
V1StartResume ==
  /\ v1.pendingStart
  /\ LET m1 == [v1 EXCEPT !.pendingStart = FALSE,
                          !.mediaStream = TRUE,
                          !.analyser = TRUE,
                          !.volumeInterval = 1,
                          !.lastTick = now,
                          !.lastLoudnessOverThreshold = FALSE,
                          !.silenceStartTime = Null]
     IN v1' = [StartContinuousRecording(m1) EXCEPT !.isAnalyzing = TRUE]
  /\ v1Out' = [v1Out EXCEPT !.created = @ + 1,
                            !.callback = "none", !.blob = << >>,
                            !.timer = "none"]
  /\ UNCHANGED <<now, v3vars, player, service, playerOut>>

\* lines 116-119: getUserMedia rejected, start() rethrows
V1StartFail ==
  /\ v1.pendingStart
  /\ v1' = [v1 EXCEPT !.pendingStart = FALSE]
  /\ v1Out' = [v1Out EXCEPT !.callback = "none", !.blob = << >>,
                            !.timer = "none"]
  /\ UNCHANGED <<now, v3vars, player, service, playerOut>>

\* lines 122-153. The timers of line 235 have no handle and stay set.
V1Stop ==
  /\ IF ~v1.isAnalyzing
     THEN /\ v1' = v1
          /\ v1Out' = [v1Out EXCEPT !.callback = "none", !.blob = << >>,
                            !.timer = "none"]
     ELSE /\ v1' = [V1StopRecording(v1) EXCEPT
                      !.volumeInterval = Null,
                      !.silenceTimeout = Null,
                      !.analyser = FALSE,
                      !.mediaStream = FALSE,
                      !.audioContext = FALSE,
                      !.isAnalyzing = FALSE,
                      !.isInLoudnessEvent = FALSE,
                      !.audioStartPoint = 0,
                      !.audioChunks = << >>,
                      !.headerChunks = << >>,
                      !.lastChunkTimestamp = 0,
                      !.hasCapturedHeaders = FALSE]
          /\ v1Out' = [NoV1Out EXCEPT
                         !.stopped = v1Out.stopped \cup v1.initialBlobTimeouts]
  /\ UNCHANGED <<now, v3vars, player, service, playerOut>>

\* lines 256-269: a dataavailable event of recorder k; every recorder's
\* handler writes the instance's buffers.
V1DataAvailable(k, size) ==
  /\ k \in DOMAIN v1.recorders
  /\ v1.recorders[k] \in {"recording", "stopping"}
  /\ v1.delivered < MaxV1Chunks
  /\ LET chunk == v1.delivered + 1
         m1 == [v1 EXCEPT !.delivered = chunk,
                          !.recorders[k] =
                             IF @ = "stopping" THEN "inactive" ELSE @]
         asHeader == /\ ~m1.hasCapturedHeaders
                     /\ Len(m1.headerChunks)
                          < V1NumberOfChunksToCaptureAsHeaders
         m2 == IF asHeader
               THEN [m1 EXCEPT !.headerChunks = Append(@, chunk),
                               !.hasCapturedHeaders =
                                  Len(m1.headerChunks) + 1
                                    >= V1NumberOfChunksToCaptureAsHeaders]
               ELSE m1
     IN v1' = IF size > 0
              THEN [m2 EXCEPT !.audioChunks = Append(@, chunk),
                              !.lastChunkTimestamp = now]
              ELSE m1
  /\ v1Out' = [v1Out EXCEPT !.callback = "none", !.blob = << >>,
                            !.timer = "none"]
  /\ UNCHANGED <<now, v3vars, player, service, playerOut>>

\* lines 177-218: the interval callback; it fires once per interval.
VolumeCheck(normalizedLoudness) ==
  /\ v1.volumeInterval # Null
  /\ v1.lastTick < now
  /\ v1.analyser
  /\ LET isLoudnessOverThreshold == normalizedLoudness >= V1LoudnessThreshold
         crossed == isLoudnessOverThreshold /\ ~v1.lastLoudnessOverThreshold
         m1 == IF crossed
               THEN [HandleLoudnessDetected(v1) EXCEPT
                       !.silenceStartTime = Null]
               ELSE v1
         m2 == IF ~isLoudnessOverThreshold /\ m1.lastLoudnessOverThreshold
               THEN [m1 EXCEPT !.silenceStartTime = now]
               ELSE IF /\ ~isLoudnessOverThreshold
                       /\ m1.silenceStartTime # Null
                       /\ now - m1.silenceStartTime >= m1.config.silenceDuration
                    THEN [ResetSilenceDetection(m1) EXCEPT
                            !.silenceStartTime = Null]
                    ELSE m1
     IN /\ v1' = [m2 EXCEPT
                    !.lastLoudnessOverThreshold = isLoudnessOverThreshold,
                    !.lastTick = now]
        /\ LET armed == m2.silenceTimeout = now + v1.config.silenceDuration
               loud == /\ m2.silenceTimeout # Null
                       /\ ~armed
                       /\ v1Out.loudSinceArmed \/ isLoudnessOverThreshold
           IN v1Out' =
                IF crossed /\ ~v1.isInLoudnessEvent
                THEN [v1Out EXCEPT !.eventStart = now, !.previews = 0,
                                   !.stale = FALSE,
                                   !.callback = "periodic", !.blob = << >>,
                                   !.loudSinceArmed = loud, !.timer = "none"]
                ELSE [v1Out EXCEPT !.callback = "periodic", !.blob = << >>,
                                   !.loudSinceArmed = loud, !.timer = "none"]
  /\ UNCHANGED <<now, v3vars, player, service, playerOut>>

\* When the pending silence timer was set (line 328).
SilenceTimeoutSetAt == v1.silenceTimeout - v1.config.silenceDuration

\* When the timer of line 235 due at d was set.
InitialBlobTimeoutSetAt(d) == d - v1.config.initialRecordingDuration

\* lines 235-239: the timer set at a recognized crossing fires. Timers that
\* are due together fire in the order they were set.
InitialBlobTimeout(d) ==
  /\ d \in v1.initialBlobTimeouts
  /\ d <= now
  /\ \A e \in v1.initialBlobTimeouts : d <= e
  /\ ~(/\ v1.silenceTimeout # Null
       /\ v1.silenceTimeout <= now
       /\ SilenceTimeoutSetAt < InitialBlobTimeoutSetAt(d))
  /\ v1' = [v1 EXCEPT !.initialBlobTimeouts = @ \ {d}]
  /\ LET blob == InitialBlob(v1)
         inEvent == v1Out.eventStart # Null
         timer == IF d \in v1Out.stopped THEN "stopped"
                  ELSE IF InitialBlobTimeoutSetAt(d) = v1Out.eventStart
                  THEN "current" ELSE "ended"
     IN v1Out' =
          IF blob = << >>
          THEN [v1Out EXCEPT !.callback = "none", !.blob = << >>,
                             !.stopped = @ \ {d}, !.timer = timer]
          ELSE [v1Out EXCEPT
                  !.previews = IF inEvent THEN @ + 1 ELSE @,
                  !.stale = @ \/ (inEvent /\ InitialBlobTimeoutSetAt(d)
                                               # v1Out.eventStart),
                  !.callback = "preview",
                  !.blob = blob,
                  !.stopped = @ \ {d}, !.timer = timer]
  /\ UNCHANGED <<now, v3vars, player, service, playerOut>>

\* lines 328-336: the silence timer fires
SilenceTimeout ==
  /\ v1.silenceTimeout # Null
  /\ v1.silenceTimeout <= now
  /\ ~\E d \in v1.initialBlobTimeouts :
        d <= now /\ InitialBlobTimeoutSetAt(d) < SilenceTimeoutSetAt
  /\ LET m1 == [v1 EXCEPT !.silenceTimeout = Null]
         blob == CompleteBlob(v1)
     IN IF v1.isRecording
        THEN /\ v1' = StartContinuousRecording(
                        [V1StopRecording(m1) EXCEPT
                           !.isInLoudnessEvent = FALSE])
             /\ v1Out' = [v1Out EXCEPT
                            !.eventStart = Null,
                            !.previews = 0,
                            !.stale = FALSE,
                            !.created = @ + 1,
                            !.callback = IF blob = << >> THEN "none"
                                         ELSE "complete",
                            !.blob = blob,
                            !.loudSinceArmed = FALSE,
                            !.timer = "none"]
        ELSE /\ v1' = m1
             /\ v1Out' = [v1Out EXCEPT !.callback = "none", !.blob = << >>,
                                       !.loudSinceArmed = FALSE,
                                       !.timer = "none"]
  /\ UNCHANGED <<now, v3vars, player, service, playerOut>>

\* A timer of the V1 instance is due.
V1TimerDue ==
  \/ v1.silenceTimeout # Null /\ v1.silenceTimeout <= now
  \/ \E d \in v1.initialBlobTimeouts : d <= now

\* Date.now() moves on one interval: the interval has fired and no timer is
\* overdue.
V1Advance ==
  /\ now < V1Epoch + MaxV1Time
  /\ v1.volumeInterval # Null => v1.lastTick = now
  /\ ~V1TimerDue
  /\ now' = now + 1
  /\ v1Out' = [v1Out EXCEPT !.callback = "none", !.blob = << >>,
                            !.timer = "none"]
  /\ UNCHANGED <<v3vars, v1, player, service, playerOut>>

\* An instance is constructed with any two durations.
InitV1 ==
  /\ now = V1Epoch
  /\ mimeTypeSupported = TRUE
  /\ isAnalyzing = FALSE
  /\ isRecording = FALSE
  /\ audioShouldStartAtThisDateTime = 0
  /\ audioChunks = << >>
  /\ headerChunks = << >>
  /\ callbacks = NoCallbacks
  /\ audioContext = FALSE
  /\ mediaStream = FALSE
  /\ analyser = FALSE
  /\ mediaRecorder = 0
  /\ periodicVolumeCalcIntervalId = Null
  /\ samplers = << >>
  /\ recorders = << >>
  /\ pendingStarts = 0
  /\ startCalls = 0
  /\ nextChunkId = 0
  /\ out = NoOut
  /\ hist = << >>
  /\ everLoud = FALSE
  /\ stopReturned = FALSE
  /\ sessionHeaders = << >>
  /\ \E ird \in 1..MaxDuration, sd \in 1..MaxSilenceDuration :
        v1 = NewV1(ird, sd)
  /\ v1Out = NoV1Out
  /\ player = NewPlayer
  /\ service = NewService
  /\ playerOut = NoPlayerOut

NextV1 ==
  \/ V1StartCall
  \/ V1StartResume
  \/ V1StartFail
  \/ V1Stop
  \/ \E k \in DOMAIN v1.recorders, size \in {0, 1} : V1DataAvailable(k, size)
  \/ \E v \in V1Levels : VolumeCheck(v)
  \/ \E d \in v1.initialBlobTimeouts : InitialBlobTimeout(d)
  \/ SilenceTimeout
  \/ V1Advance

SpecV1 == InitV1 /\ [][NextV1]_vars

\* C25: in AudioLoudnessMeter (V1), whatever the two durations of the
\* configuration, onAudioAboveThresholdDetected is invoked at most once
\* between a recognized threshold crossing and the silence timer that ends
\* the event, and never by the timer of an earlier event.
C25_AtMostOnePreviewPerEvent ==
  v1Out.previews <= 1 /\ ~v1Out.stale

\* C26: in AudioLoudnessMeter (V1), one MediaRecorder is constructed between
\* start() and stop(): none is constructed later in the session, the end of
\* an event included.
C26_SingleMediaRecorder ==
  v1Out.created <= 1

\* C36: in AudioLoudnessMeter (V1), when a sample >= threshold has been
\* read since the pending silence timer was set, no step invokes
\* onSilenceDetected and none constructs a recorder: the timer has been
\* disarmed.
C36_LoudnessDisarmsSilenceTimer ==
  [][v1Out.loudSinceArmed =>
       /\ v1Out'.callback # "complete"
       /\ v1Out'.created <= v1Out.created]_vars

\* C37: in AudioLoudnessMeter (V1), a preview timer that was pending when
\* stop() was called never invokes onAudioAboveThresholdDetected, also when
\* start() has been called again before it fires.
C37_NoPreviewFromStoppedSession ==
  ~(v1Out.timer = "stopped" /\ v1Out.callback = "preview")

\* C38: in AudioLoudnessMeter (V1), whatever the two durations, a step that
\* invokes onSilenceDetected ends an event whose preview has been delivered,
\* and no preview is delivered by the timer of an event that has ended with
\* its silence timer.
C38_PreviewBeforeComplete ==
  /\ [][v1Out'.callback = "complete" => v1Out.previews >= 1]_vars
  /\ [](v1Out.callback = "preview" => v1Out.timer # "ended")

(* ========== QueuedWebAudioPlayer and VoiceInteractionAudioService ======= *)
\* An AudioBufferSourceNode started at AudioContext.currentTime = now, from
\* the given offset into its clip (source.start(0, offset)).
StartedSource(clip, offset) ==
  [clip |-> clip, offset |-> offset, startedAt |-> now,
   sounding |-> TRUE, onended |-> TRUE]

\* The position in its clip that a sounding source has reached.
Position(source) == source.offset + (now - source.startedAt)

\* The loudspeaker is playing a source.
Sounding(p) == p.currentSource # NoSource /\ p.currentSource.sounding

\* QueuedWebAudioPlayer.ts lines 165-199
PlayerStopped(p) ==
  [p EXCEPT !.currentSource = NoSource,
            !.sourceQueue = << >>,
            !.isAudioBufferPlaying = FALSE,
            !.isPlaying = FALSE,
            !.playbackPosition = 0,
            !.totalElapsedTime = 0,
            !.currentBuffer = Null]

\* lines 65-98
PlayNext(p) ==
  IF ~p.hasMoreAudioChunks /\ Len(p.sourceQueue) = 0 THEN PlayerStopped(p)
  ELSE IF Len(p.sourceQueue) = 0 THEN [p EXCEPT !.isAudioBufferPlaying = FALSE]
  ELSE [p EXCEPT !.sourceQueue = Tail(@),
                 !.currentSource =
                    StartedSource(Head(p.sourceQueue), p.playbackPosition),
                 !.unreferenced = @ + (IF Sounding(p) THEN 1 ELSE 0),
                 !.isAudioBufferPlaying = TRUE,
                 !.currentBuffer = Head(p.sourceQueue),
                 !.lastPauseTime = now]

\* pause() that leaves the current source playing.
Pause_SourceKeepsPlaying(p) ==
  IF ~p.isAudioBufferPlaying \/ p.currentSource = NoSource THEN p
  ELSE LET elapsedSinceLastPause == now - p.lastPauseTime
       IN [p EXCEPT !.totalElapsedTime = @ + elapsedSinceLastPause,
                    !.playbackPosition =
                       p.totalElapsedTime + elapsedSinceLastPause,
                    !.isAudioBufferPlaying = FALSE]

\* lines 100-117
Pause(p) ==
  IF ~p.isAudioBufferPlaying \/ p.currentSource = NoSource THEN p
  ELSE LET elapsedSinceLastPause == now - p.lastPauseTime
       IN [p EXCEPT !.totalElapsedTime = @ + elapsedSinceLastPause,
                    !.playbackPosition =
                       p.totalElapsedTime + elapsedSinceLastPause,
                    !.currentSource =
                       [@ EXCEPT !.onended = FALSE, !.sounding = FALSE],
                    !.isAudioBufferPlaying = FALSE]

\* lines 119-158
Play(p) ==
  IF p.isAudioBufferPlaying THEN p
  ELSE LET p1 == [p EXCEPT !.hasMoreAudioChunks = TRUE, !.isPlaying = TRUE]
       IN IF p1.currentBuffer # Null /\ p1.playbackPosition > 0
          THEN [p1 EXCEPT !.currentSource =
                             StartedSource(p1.currentBuffer,
                                           p1.playbackPosition),
                          !.unreferenced = @ + (IF Sounding(p) THEN 1 ELSE 0),
                          !.isAudioBufferPlaying = TRUE,
                          !.lastPauseTime = now]
          ELSE IF Len(p1.sourceQueue) > 0 THEN PlayNext(p1) ELSE p1

\* The clip and the position at which a pause() has stopped the source
\* that was playing in p; what was recorded before when it stopped none.
PausedAt(p, q) ==
  IF Sounding(p) /\ ~Sounding(q)
  THEN <<p.currentSource.clip, Position(p.currentSource)>>
  ELSE playerOut.paused

\* What an operation leaves of the record of what was played: a stop()
\* discards the clips that were queued, not those still being decoded.
Played(p, stopped) ==
  IF stopped
  THEN [playerOut EXCEPT !.expected = p.enqueueProcessingPromise,
                         !.heard = << >>,
                         !.pausedForSpeech = FALSE,
                         !.callback = "none",
                         !.paused = << >>]
  ELSE [playerOut EXCEPT !.callback = "none"]

\* stop() ran inside the step from p to q (line 67, or a call of stop()).
StopRan(p, q) == p.isPlaying /\ ~q.isPlaying

\* VoiceInteractionAudioService.ts lines 53-55 and QueuedWebAudioPlayer.ts
\* lines 32-35: the decode of the clip is chained to the earlier ones.
EnqueueAudio ==
  /\ player.enqueued < MaxClips
  /\ player' = [player EXCEPT
                  !.enqueued = @ + 1,
                  !.enqueueProcessingPromise = Append(@, player.enqueued + 1)]
  /\ playerOut' = [playerOut EXCEPT
                     !.expected = Append(@, player.enqueued + 1),
                     !.callback = "none"]
  /\ UNCHANGED <<now, v3vars, v1, v1Out, service>>

\* QueuedWebAudioPlayer.ts lines 42-55: the first clip of the chain is
\* decoded
DecodeDone ==
  /\ player.enqueueProcessingPromise # << >>
  /\ LET p1 == [player EXCEPT
                  !.enqueueProcessingPromise = Tail(@),
                  !.sourceQueue =
                     Append(@, Head(player.enqueueProcessingPromise))]
         p2 == IF p1.isPlaying /\ ~p1.isAudioBufferPlaying
               THEN PlayNext(p1) ELSE p1
     IN /\ player' = p2
        /\ playerOut' = Played(p2, StopRan(player, p2))
  /\ UNCHANGED <<now, v3vars, v1, v1Out, service>>

\* lines 87-96 and 146-153: the current source has played its clip to the end
Ended ==
  /\ Sounding(player)
  /\ Position(player.currentSource) >= ClipLen
  /\ LET p1 == [player EXCEPT !.currentSource.sounding = FALSE]
         p2 == IF ~player.currentSource.onended THEN p1
               ELSE LET p3 == [p1 EXCEPT !.isAudioBufferPlaying = FALSE,
                                         !.playbackPosition = 0,
                                         !.totalElapsedTime = 0]
                    IN IF p3.isPlaying THEN PlayNext(p3) ELSE p3
     IN /\ player' = p2
        /\ playerOut' = Played(p2, StopRan(player, p2))
  /\ UNCHANGED <<now, v3vars, v1, v1Out, service>>

\* VoiceInteractionAudioService.ts lines 57-60
PlayEnqueuedAudio ==
  /\ service' =
       [service EXCEPT
          !.isQueuedAudioPlayerPausedDueToAudioLoundessThresholdExceeded =
             FALSE]
  /\ player' = Play(player)
  /\ playerOut' = [Played(Play(player), StopRan(player, Play(player)))
                     EXCEPT !.pausedForSpeech = FALSE, !.paused = << >>]
  /\ UNCHANGED <<now, v3vars, v1, v1Out>>

\* lines 62-65
PauseEnqueuedAudio ==
  /\ service' =
       [service EXCEPT
          !.isQueuedAudioPlayerPausedDueToAudioLoundessThresholdExceeded =
             FALSE]
  /\ player' = Pause(player)
  /\ playerOut' = [playerOut EXCEPT !.pausedForSpeech = FALSE,
                                    !.callback = "none",
                                    !.paused = PausedAt(player, player')]
  /\ UNCHANGED <<now, v3vars, v1, v1Out>>

\* lines 84-91: the meter's onPeriodicVolumeInformation with a sample
HandlePeriodicVolumeInformation(volume) ==
  /\ IF /\ volume > ServiceLoudnessThreshold
        /\ player.isPlaying
        /\ player.isAudioBufferPlaying
     THEN /\ service' =
               [service EXCEPT
                  !.isQueuedAudioPlayerPausedDueToAudioLoundessThresholdExceeded
                     = TRUE]
          /\ player' = Pause(player)
     ELSE UNCHANGED <<service, player>>
  /\ playerOut' = [playerOut EXCEPT
                     !.pausedForSpeech =
                        @ \/ (/\ volume > ServiceLoudnessThreshold
                              /\ Sounding(player)
                              /\ ~Sounding(player')),
                     !.callback = "volume",
                     !.paused = PausedAt(player, player')]
  /\ UNCHANGED <<now, v3vars, v1, v1Out>>

\* lines 73-82: the meter's onSilenceDetected
HandleSilenceDetected ==
  /\ IF service.isQueuedAudioPlayerPausedDueToAudioLoundessThresholdExceeded
     THEN /\ service' =
               [service EXCEPT
                  !.isQueuedAudioPlayerPausedDueToAudioLoundessThresholdExceeded
                     = FALSE]
          /\ player' = Play(player)
     ELSE UNCHANGED <<service, player>>
  /\ playerOut' =
       [Played(player', StopRan(player, player'))
          EXCEPT !.pausedForSpeech = FALSE, !.callback = "silence",
                 !.paused =
                    IF service.isQueuedAudioPlayerPausedDueToAudioLoundessThresholdExceeded
                    THEN << >> ELSE @]
  /\ UNCHANGED <<now, v3vars, v1, v1Out>>

\* QueuedWebAudioPlayer.ts lines 160-163
NoMoreAudioChunksWillBeReceived ==
  /\ player.hasMoreAudioChunks
  /\ player' = [player EXCEPT !.hasMoreAudioChunks = FALSE]
  /\ playerOut' = [playerOut EXCEPT !.callback = "none"]
  /\ UNCHANGED <<now, v3vars, v1, v1Out, service>>

\* lines 165-199: stop() called on the player
PlayerStop ==
  /\ player.isPlaying
  /\ player' = PlayerStopped(player)
  /\ playerOut' = Played(player', TRUE)
  /\ UNCHANGED <<now, v3vars, v1, v1Out, service>>

\* AudioContext.currentTime moves on one unit; a sounding source plays the
\* unit of its clip it has reached, and stops at the end of its clip.
PlayerAdvance ==
  /\ now < MaxPlayerTime
  /\ ~(Sounding(player) /\ Position(player.currentSource) >= ClipLen)
  /\ now' = now + 1
  /\ playerOut' =
       IF Sounding(player)
       THEN [playerOut EXCEPT
               !.heard = Append(@, <<player.currentSource.clip,
                                     Position(player.currentSource)>>),
               !.callback = "none"]
       ELSE [playerOut EXCEPT !.callback = "none"]
  /\ UNCHANGED <<v3vars, v1, v1Out, player, service>>

\* VoiceInteractionAudioService.ts lines 31-51: the service is constructed
\* with a new player and calls playEnqueuedAudio().
InitPlayer ==
  /\ now = 0
  /\ mimeTypeSupported = TRUE
  /\ isAnalyzing = FALSE
  /\ isRecording = FALSE
  /\ audioShouldStartAtThisDateTime = 0
  /\ audioChunks = << >>
  /\ headerChunks = << >>
  /\ callbacks = NoCallbacks
  /\ audioContext = FALSE
  /\ mediaStream = FALSE
  /\ analyser = FALSE
  /\ mediaRecorder = 0
  /\ periodicVolumeCalcIntervalId = Null
  /\ samplers = << >>
  /\ recorders = << >>
  /\ pendingStarts = 0
  /\ startCalls = 0
  /\ nextChunkId = 0
  /\ out = NoOut
  /\ hist = << >>
  /\ everLoud = FALSE
  /\ stopReturned = FALSE
  /\ sessionHeaders = << >>
  /\ v1 = NewV1(1, 1)
  /\ v1Out = NoV1Out
  /\ player = Play(NewPlayer)
  /\ service = NewService
  /\ playerOut = NoPlayerOut

NextPlayer ==
  \/ EnqueueAudio
  \/ DecodeDone
  \/ Ended
  \/ PlayEnqueuedAudio
  \/ PauseEnqueuedAudio
  \/ \E volume \in Volumes : HandlePeriodicVolumeInformation(volume)
  \/ HandleSilenceDetected
  \/ NoMoreAudioChunksWillBeReceived
  \/ PlayerStop
  \/ PlayerAdvance

SpecPlayer == InitPlayer /\ [][NextPlayer]_vars

\* The unit of sound that comes k-th when the expected clips are played one
\* after another, each from its beginning to its end.
IdealUnit(k) ==
  <<playerOut.expected[((k - 1) \div ClipLen) + 1], (k - 1) % ClipLen>>

\* C27: in QueuedWebAudioPlayer the clips enqueued since the last stop()
\* are played one after another in the order of the enqueueAudio calls,
\* each from its beginning to its end before the next one starts: what was
\* played so far is a prefix of that sequence, under every interleaving of
\* enqueueAudio, decodes, play(), pause() and end-of-clip events.
C27_ClipsPlayedInOrderAndWhole ==
  \A k \in 1..Len(playerOut.heard) :
    /\ k <= Len(playerOut.expected) * ClipLen
    /\ playerOut.heard[k] = IdealUnit(k)

\* C28: in VoiceInteractionAudioService, once a loud microphone sample has
\* paused the playback, nothing plays until onSilenceDetected fires (an
\* enqueueAudio in between included), and at that callback the paused clip
\* plays again.
C28_PausedUntilSilence ==
  /\ [](playerOut.pausedForSpeech => ~Sounding(player))
  /\ [][(playerOut.pausedForSpeech /\ playerOut'.callback = "silence")
        => Sounding(player')]_vars

\* C39: in QueuedWebAudioPlayer at most one source is started and not yet
\* ended or stopped (currentSource, and no other source left playing), and
\* isAudioBufferPlaying is true exactly when there is such a source.
C39_OneSourceAndFlagAgree ==
  /\ player.unreferenced = 0
  /\ player.isAudioBufferPlaying <=> Sounding(player)

\* C39 witness: a clip that pause() had stopped plays again from the saved
\* position while a later clip waits in the queue.
C39_Witness ==
  /\ Sounding(player) /\ player.isAudioBufferPlaying
  /\ player.currentSource.offset > 0
  /\ Len(player.sourceQueue) > 0

\* C40: in QueuedWebAudioPlayer, from a pause() that stopped the playing
\* clip to the next play() no source plays (a decode that completes in
\* between only appends to the queue), and that play() starts the paused
\* clip at the position where it was stopped.
C40_NothingStartsWhilePaused ==
  /\ [](playerOut.paused # << >> => ~Sounding(player))
  /\ [][(playerOut.paused # << >> /\ playerOut'.paused = << >>
                                   /\ player'.isPlaying)
        => /\ Sounding(player')
           /\ player'.currentSource.clip = playerOut.paused[1]
           /\ player'.currentSource.offset = playerOut.paused[2]]_vars

(* ------------------- the closure of a sampler, C31 --------------------- *)
\* C31: in every reachable state and for every sampler closure,
\* loudnessDetectedStartTime is not set together with
\* processingAudioThresholdExceededEvent, and silenceDetectedStartTime is
\* set only while processingAudioThresholdExceededEvent is set.
C31_ClosureFlagsExclusive ==
  \A i \in DOMAIN samplers :
    /\ ~(/\ samplers[i].loudnessDetectedStartTime # Null
         /\ samplers[i].processingAudioThresholdExceededEvent)
    /\ samplers[i].silenceDetectedStartTime # Null
         => samplers[i].processingAudioThresholdExceededEvent

\* C31 witness: the tick of a sampler that has delivered its preview reads
\* a sample below the threshold and leaves the silence timer running.
C31_Witness ==
  \E i \in DOMAIN samplers :
    /\ out.sampler = i /\ out.below /\ ~out.silenceTrigger
    /\ samplers[i].processingAudioThresholdExceededEvent
    /\ samplers[i].silenceDetectedStartTime # Null
    /\ samplers[i].loudnessDetectedStartTime = Null

(* ------------------ the order of the chunk buffer, C32 ----------------- *)
\* C32 as stated: the end timestamps of the chunks in audioChunks are
\* strictly increasing in buffer order.
C32_TimestampsStrictlyIncreasing ==
  \A j, k \in DOMAIN audioChunks :
    j < k => audioChunks[j].dateTimeBlobEnded < audioChunks[k].dateTimeBlobEnded

\* C32 as amended: audioChunks holds its chunks in arrival order and their
\* end timestamps, each the clock reading at the chunk's arrival, never
\* decrease in buffer order; chunks that arrive within one clock reading
\* carry equal timestamps.
C32_TimestampsNeverDecrease ==
  /\ InArrivalOrder(audioChunks)
  /\ \A j, k \in DOMAIN audioChunks :
       j < k =>
         audioChunks[j].dateTimeBlobEnded <= audioChunks[k].dateTimeBlobEnded

\* C32 witness: a buffer of three chunks, two of which arrived within one
\* clock reading and one at a later reading, with ticks in between.
C32_Witness ==
  /\ Len(audioChunks) = 3
  /\ audioChunks[1].dateTimeBlobEnded = audioChunks[2].dateTimeBlobEnded
  /\ audioChunks[2].dateTimeBlobEnded < audioChunks[3].dateTimeBlobEnded
  /\ everLoud

(* ----------------- the buffer around an emission, C33 ------------------ *)
AppendedTo(old, new) ==
  Len(old) <= Len(new) /\ SubSeq(new, 1, Len(old)) = old

\* C33: a tick, and in particular one that assembles a preview or a complete
\* clip, leaves audioChunks and headerChunks unchanged, and a tick that calls
\* a trigger leaves audioShouldStartAtThisDateTime unchanged; and every step
\* taken while the instance is active before and after it (between start()
\* and stop()) leaves the chunks already in audioChunks in place and at most
\* appends to them.
C33_BufferOnlyAppendedTo ==
  [][/\ out'.sampler # 0 =>
          /\ audioChunks' = audioChunks
          /\ headerChunks' = headerChunks
          /\ (out'.previewTrigger \/ out'.silenceTrigger) =>
               audioShouldStartAtThisDateTime' = audioShouldStartAtThisDateTime
     /\ (isAnalyzing /\ isAnalyzing') => AppendedTo(audioChunks, audioChunks')
    ]_vars

(* ------------------ complete only after preview, C34 ------------------- *)
\* C34: a tick that invokes onSilenceDetected completes an event for which
\* onAudioAboveThresholdDetected has been invoked: no complete clip is
\* delivered for an event whose preview emission was skipped.
C34_CompleteAfterPreview ==
  out.completeCalled => out.event.previews >= 1

(* ------------------- no chunk twice in a blob, C35 --------------------- *)
\* C35: no chunk appears more than once in the parts of a blob built by a
\* tick: the selected payload holds no chunk of the header set.
C35_NoChunkTwiceInBlob ==
  \A b \in BlobsOut :
    \A j, k \in DOMAIN b.parts : j # k => b.parts[j].id # b.parts[k].id

====
